---- MODULE Spec2Model ----
(***************************************************************************)
(* Model of the course planner of src/src/main.js: the CoursePlanner       *)
(* object (selection, caps, filters, elective trail lock), the lists it    *)
(* renders, and the event handlers that drive it.                          *)
(*                                                                         *)
(* Texts (course codes, names, categories, input values) are sequences of  *)
(* one-character strings, so that includes(), toLowerCase(), trim() and    *)
(* parseInt() are computed on them as JavaScript computes them.            *)
(***************************************************************************)
EXTENDS Integers, Sequences, FiniteSets, TLC

VARIABLES
    courses,                  \* this.courses: the catalog given to the constructor
    selectedCourses,          \* this.selectedCourses: Set of codes
    maxCredits,               \* this.maxCredits
    maxCourses,               \* this.maxCourses
    categoryFilter,           \* this.categoryFilter
    typeFilter,               \* this.typeFilter
    electiveTrailSelections,  \* this.electiveTrailSelections
    searchInput,              \* this.searchInput.value
    selectedCoursesList,      \* cards of #selectedCoursesList as last rendered
    availableCoursesList,     \* cards of #availableCoursesList as last rendered
    lastOp,                   \* history: the handler that ran last
    lastCode                  \* history: the course code it was called with

vars == <<courses, selectedCourses, maxCredits, maxCourses, categoryFilter,
          typeFilter, electiveTrailSelections, searchInput,
          selectedCoursesList, availableCoursesList, lastOp, lastCode>>

-----------------------------------------------------------------------------
(* JavaScript values and string functions *)

\* null (electiveTrailSelections.firstTrail / thirdTrail before a trail is chosen)
Null == <<"null">>

\* JavaScript truthiness of a text-or-null value: null and '' are falsy
Truthy(v) == v # Null /\ v # <<>>

UpperChars ==
    <<"A","B","C","D","E","F","G","H","I","J","K","L","M",
      "N","O","P","Q","R","S","T","U","V","W","X","Y","Z">>

LowerChars ==
    <<"a","b","c","d","e","f","g","h","i","j","k","l","m",
      "n","o","p","q","r","s","t","u","v","w","x","y","z">>

\* the lower-case form of each upper-case letter
LowerOf ==
    [ch \in {UpperChars[k] : k \in 1..26} |->
        LowerChars[CHOOSE k \in 1..26 : UpperChars[k] = ch]]

\* the lower-case form of one character
lowerChar(ch) == IF ch \in DOMAIN LowerOf THEN LowerOf[ch] ELSE ch

\* String.prototype.toLowerCase, character by character from position i on
RECURSIVE lowerFrom(_, _)
lowerFrom(s, i) ==
    IF i > Len(s) THEN <<>>
    ELSE <<lowerChar(s[i])>> \o lowerFrom(s, i + 1)

toLowerCase(s) == lowerFrom(s, 1)

\* String.prototype.includes: t occurs in s as a contiguous substring
includes(s, t) ==
    \E i \in 0..(Len(s) - Len(t)) :
        \A j \in 1..Len(t) : s[i + j] = t[j]

\* Array.prototype.includes on a list of codes
listIncludes(list, x) == \E i \in 1..Len(list) : list[i] = x

\* String.prototype.trim (the only white space of the model's texts is " ")
trim(s) ==
    LET nonBlank == {i \in 1..Len(s) : s[i] # " "}
        first == CHOOSE i \in nonBlank : \A j \in nonBlank : i <= j
        last == CHOOSE i \in nonBlank : \A j \in nonBlank : i >= j
    IN  IF nonBlank = {} THEN <<>> ELSE SubSeq(s, first, last)

Digits == <<"0","1","2","3","4","5","6","7","8","9">>

IsDigit(ch) == \E d \in 1..10 : Digits[d] = ch

DigitValue(ch) == (CHOOSE d \in 1..10 : Digits[d] = ch) - 1

\* value of the longest prefix of digits of s from position i on, acc so far
RECURSIVE DigitsFrom(_, _, _)
DigitsFrom(s, i, acc) ==
    IF i <= Len(s) /\ IsDigit(s[i])
    THEN DigitsFrom(s, i + 1, acc * 10 + DigitValue(s[i]))
    ELSE acc

\* parseInt(s) in radix 10: leading white space, an optional sign, then the
\* longest prefix of digits; NaN when there is no digit there.  The result
\* is a record: isNaN, and the integer when it is a number.
parseInt(s) ==
    LET nonBlank == {i \in 1..Len(s) : s[i] # " "}
        start == IF nonBlank = {} THEN Len(s) + 1
                 ELSE CHOOSE i \in nonBlank : \A j \in nonBlank : i <= j
        signed == start <= Len(s) /\ s[start] \in {"-", "+"}
        from == IF signed THEN start + 1 ELSE start
    IN  IF from <= Len(s) /\ IsDigit(s[from])
        THEN [isNaN |-> FALSE,
              value |-> IF signed /\ s[start] = "-"
                        THEN 0 - DigitsFrom(s, from, 0)
                        ELSE DigitsFrom(s, from, 0)]
        ELSE [isNaN |-> TRUE, value |-> 0]

\* `parseInt(value) || dflt`: NaN and 0 are falsy
parseIntOr(s, dflt) ==
    LET n == parseInt(s)
    IN  IF n.isNaN \/ n.value = 0 THEN dflt ELSE n.value

-----------------------------------------------------------------------------
(* Texts of the catalogs *)

CSE470 == <<"C","S","E","4","7","0">>
CSE470L == <<"C","S","E","4","7","0","L">>
POL101 == <<"P","O","L","1","0","1">>
POL104 == <<"P","O","L","1","0","4">>
ECO101 == <<"E","C","O","1","0","1">>
ECO104 == <<"E","C","O","1","0","4">>
SOC101 == <<"S","O","C","1","0","1">>
ANT101 == <<"A","N","T","1","0","1">>
ENV203 == <<"E","N","V","2","0","3">>
HIS103 == <<"H","I","S","1","0","3">>
PHY108 == <<"P","H","Y","1","0","8">>
PHY108L == <<"P","H","Y","1","0","8","L">>
MAT130 == <<"M","A","T","1","3","0">>
CSE338 == <<"C","S","E","3","3","8">>
CSE338L == <<"C","S","E","3","3","8","L">>
CSE438 == <<"C","S","E","4","3","8">>
CSE439 == <<"C","S","E","4","3","9">>
CSE446 == <<"C","S","E","4","4","6">>
CSE499 == <<"C","S","E","4","9","9">>
ECO101L == <<"E","C","O","1","0","1","L">>
BUS172 == <<"B","U","S","1","7","2">>

\* the marker of a trail category, as in course.category.includes('Trail')
TrailMarker == <<"T","r","a","i","l">>

CSECore == <<"C","S","E"," ","C","o","r","e">>
UniversityCore == <<"U","n","i","v","e","r","s","i","t","y"," ","C","o","r","e">>
NetworksTrail == <<"N","e","t","w","o","r","k","s"," ","T","r","a","i","l">>
BioinformaticsTrail ==
    <<"B","i","o","i","n","f","o","r","m","a","t","i","c","s"," ","T","r","a","i","l">>

Theory == <<"t","h","e","o","r","y">>
Lab == <<"l","a","b">>

\* a course record of courses.json (prerequisites are only displayed and are
\* left out; a course without corequisites has the empty list)
Course(code, name, credits, type, category, corequisites) ==
    [code |-> code, name |-> name, credits |-> credits, type |-> type,
     category |-> category, corequisites |-> corequisites]

\* a catalog as the real one is laid out: a course with its lab as
\* corequisite, two alternatives, no trail course
CatalogCore ==
    << Course(CSE470, <<"C","o","m","p","i","l","e","r">>, 3, Theory, CSECore, <<CSE470L>>),
       Course(CSE470L, <<"C","o","m","p","i","l","e","r"," ","L","a","b">>, 1, Lab, CSECore, <<>>),
       Course(POL101, <<"P","o","l","i","t","i","c","s">>, 3, Theory, UniversityCore, <<>>),
       Course(POL104, <<"G","o","v","e","r","n","a","n","c","e">>, 3, Theory, UniversityCore, <<>>) >>

\* trail courses of two trails, none with corequisites
CatalogTrails ==
    << Course(CSE338, <<"N","e","t","s">>, 3, Theory, NetworksTrail, <<>>),
       Course(CSE438, <<"W","i","f","i">>, 3, Theory, NetworksTrail, <<>>),
       Course(CSE439, <<"R","a","d","i","o">>, 3, Theory, NetworksTrail, <<>>),
       Course(CSE446, <<"G","e","n","e","s">>, 3, Theory, BioinformaticsTrail, <<>>) >>

\* a course whose corequisites are its lab and a course that the lab
\* lists as corequisite too
CatalogChain ==
    << Course(PHY108, <<"P","h","y","s","i","c","s">>, 3, Theory, CSECore, <<MAT130, PHY108L>>),
       Course(PHY108L, <<"P","h","y","s","i","c","s"," ","L","a","b">>, 1, Lab, CSECore, <<MAT130>>),
       Course(MAT130, <<"C","a","l","c","u","l","u","s">>, 3, Theory, CSECore, <<>>) >>

\* a member of an alternative group that is the corequisite of a course
CatalogAlternatives ==
    << Course(POL101, <<"P","o","l","i","t","i","c","s">>, 3, Theory, UniversityCore, <<>>),
       Course(POL104, <<"G","o","v","e","r","n","a","n","c","e">>, 3, Theory, UniversityCore, <<>>),
       Course(HIS103, <<"H","i","s","t","o","r","y">>, 3, Theory, UniversityCore, <<POL104>>) >>

\* trail courses that are corequisites: a trail course with its lab, and
\* a core course that lists the lab as well
CatalogTrailLabs ==
    << Course(CSE338, <<"N","e","t","s">>, 3, Theory, NetworksTrail, <<CSE338L>>),
       Course(CSE338L, <<"N","e","t","s"," ","L","a","b">>, 1, Lab, NetworksTrail, <<>>),
       Course(CSE446, <<"G","e","n","e","s">>, 3, Theory, BioinformaticsTrail, <<>>),
       Course(CSE499, <<"C","a","p","s","t","o","n","e">>, 3, Theory, CSECore, <<CSE338L>>) >>

\* a member of an alternative group with a lab as corequisite, and a
\* second course that lists the same lab
CatalogSharedLab ==
    << Course(ECO101, <<"M","i","c","r","o">>, 3, Theory, UniversityCore, <<ECO101L>>),
       Course(ECO104, <<"M","a","c","r","o">>, 3, Theory, UniversityCore, <<>>),
       Course(ECO101L, <<"D","a","t","a"," ","L","a","b">>, 1, Lab, UniversityCore, <<>>),
       Course(BUS172, <<"S","t","a","t","s">>, 3, Theory, UniversityCore, <<ECO101L>>) >>

\* the catalogs the constructor is run on
Catalogs ==
    {CatalogCore, CatalogTrails, CatalogChain, CatalogAlternatives,
     CatalogTrailLabs, CatalogSharedLab}

\* this.alternativeGroups
alternativeGroups ==
    << <<POL101, POL104>>,
       <<ECO101, ECO104>>,
       <<SOC101, ANT101, ENV203>> >>

-----------------------------------------------------------------------------
(* Queries of CoursePlanner.  `this` is the planner object: a record of its
   fields selectedCourses, maxCredits, maxCourses, categoryFilter,
   typeFilter, electiveTrailSelections and searchInput (the value of the
   search box).  this.courses and this.alternativeGroups never change and
   are read as courses and alternativeGroups. *)

\* the planner object in the current state
planner ==
    [selectedCourses |-> selectedCourses,
     maxCredits |-> maxCredits,
     maxCourses |-> maxCourses,
     categoryFilter |-> categoryFilter,
     typeFilter |-> typeFilter,
     electiveTrailSelections |-> electiveTrailSelections,
     searchInput |-> searchInput]

\* this.courses.find(c => c.code === code) finds a course
hasCourse(code) == \E i \in 1..Len(courses) : courses[i].code = code

\* this.courses.find(c => c.code === code): the first course with the code
findCourse(code) ==
    LET at == {i \in 1..Len(courses) : courses[i].code = code}
    IN  courses[CHOOSE i \in at : \A j \in at : i <= j]

\* sum of the credits of the codes of a set that the catalog knows
RECURSIVE sumCredits(_)
sumCredits(codes) ==
    IF codes = {} THEN 0
    ELSE LET code == CHOOSE c \in codes : TRUE
         IN  (IF hasCourse(code) THEN findCourse(code).credits ELSE 0)
             + sumCredits(codes \ {code})

getSelectedCredits(this) == sumCredits(this.selectedCourses)

getSelectedCourseCount(this) == Cardinality(this.selectedCourses)

\* course.category.includes('Trail')
isTrailCategory(category) == includes(category, TrailMarker)

\* trailCounts has a key for every category with a selected trail course;
\* any other key reads as undefined
getSelectedElectiveTrails(this) ==
    LET trailCourses ==
            {code \in this.selectedCourses :
                hasCourse(code) /\ isTrailCategory(findCourse(code).category)}
        categories == {findCourse(code).category : code \in trailCourses}
        trailCounts ==
            [category \in categories |->
                Cardinality({code \in trailCourses :
                                findCourse(code).category = category})]
        countOr0(category) ==
            IF category \in categories THEN trailCounts[category] ELSE 0
    IN  [trailCourses |-> trailCourses,
         trailCounts |-> trailCounts,
         firstTrailCourses |->
            IF Truthy(this.electiveTrailSelections.firstTrail)
            THEN countOr0(this.electiveTrailSelections.firstTrail) ELSE 0,
         thirdTrailCourses |->
            IF Truthy(this.electiveTrailSelections.thirdTrail)
            THEN countOr0(this.electiveTrailSelections.thirdTrail) ELSE 0]

wouldViolateAlternatives(this, courseCode) ==
    LET at == {g \in 1..Len(alternativeGroups) :
                    listIncludes(alternativeGroups[g], courseCode)}
        group == alternativeGroups[CHOOSE g \in at : \A h \in at : g <= h]
    IN  IF at # {}
        THEN \E k \in 1..Len(group) :
                group[k] # courseCode /\ group[k] \in this.selectedCourses
        ELSE FALSE

\* an availability test that leaves the alternative groups out
isCourseAvailableNoAlternatives(this, course) ==
    IF course.code \in this.selectedCourses THEN FALSE
    ELSE IF getSelectedCredits(this) + course.credits > this.maxCredits THEN FALSE
    ELSE IF getSelectedCourseCount(this) + 1 > this.maxCourses THEN FALSE
    ELSE TRUE

isCourseAvailable(this, course) ==
    IF course.code \in this.selectedCourses THEN FALSE
    ELSE IF getSelectedCredits(this) + course.credits > this.maxCredits THEN FALSE
    ELSE IF getSelectedCourseCount(this) + 1 > this.maxCourses THEN FALSE
    ELSE IF wouldViolateAlternatives(this, course.code) THEN FALSE
    ELSE TRUE

\* a filter that keeps the other trails hidden until three courses of the
\* first trail are selected (< 3 in place of < 2)
filterCoursesUntilThree(this, list, searchTerm, categoryFilterArg, typeFilterArg) ==
    LET selectedElectiveTrails == getSelectedElectiveTrails(this)
        term == toLowerCase(searchTerm)
        keep(course) ==
            /\ ~ ( /\ searchTerm # <<>>
                   /\ ~ includes(toLowerCase(course.code), term)
                   /\ ~ includes(toLowerCase(course.name), term)
                   /\ ~ includes(toLowerCase(course.category), term) )
            /\ ~ (categoryFilterArg # <<>> /\ course.category # categoryFilterArg)
            /\ ~ (typeFilterArg # <<>> /\ course.type # typeFilterArg)
            /\ ~ ( /\ isTrailCategory(course.category)
                   /\ Truthy(this.electiveTrailSelections.firstTrail)
                   /\ selectedElectiveTrails.firstTrailCourses < 3
                   /\ course.category # this.electiveTrailSelections.firstTrail )
    IN  SelectSeq(list, keep)

filterCourses(this, list, searchTerm, categoryFilterArg, typeFilterArg) ==
    LET selectedElectiveTrails == getSelectedElectiveTrails(this)
        term == toLowerCase(searchTerm)
        keep(course) ==
            /\ ~ ( /\ searchTerm # <<>>
                   /\ ~ includes(toLowerCase(course.code), term)
                   /\ ~ includes(toLowerCase(course.name), term)
                   /\ ~ includes(toLowerCase(course.category), term) )
            /\ ~ (categoryFilterArg # <<>> /\ course.category # categoryFilterArg)
            /\ ~ (typeFilterArg # <<>> /\ course.type # typeFilterArg)
            /\ ~ ( /\ isTrailCategory(course.category)
                   /\ Truthy(this.electiveTrailSelections.firstTrail)
                   /\ selectedElectiveTrails.firstTrailCourses < 2
                   /\ course.category # this.electiveTrailSelections.firstTrail )
    IN  SelectSeq(list, keep)

\* a card whose listeners add the course whenever it is not selected
createCourseCardAlwaysAdds(this, course, isSelected) ==
    [code |-> course.code,
     isSelected |-> isSelected,
     isAvailable |-> ~ isSelected]

\* the card createCourseCard builds: the flags its click listeners close over
createCourseCard(this, course, isSelected) ==
    [code |-> course.code,
     isSelected |-> isSelected,
     isAvailable |-> (~ isSelected) /\ isCourseAvailable(this, course)]

\* the selected list renderCourses builds.  Array.from(this.selectedCourses)
\* is in insertion order; the model keeps selectedCourses as a set and lists
\* the selected courses in catalog order (the order of the cards is all that
\* the insertion order decides).
renderSelectedList(this) ==
    LET isSelectedCourse(course) == course.code \in this.selectedCourses
        selectedCoursesArray == SelectSeq(courses, isSelectedCourse)
        filteredSelected ==
            filterCourses(this, selectedCoursesArray, trim(this.searchInput),
                          <<>>, <<>>)
    IN  [i \in 1..Len(filteredSelected) |->
            createCourseCard(this, filteredSelected[i], TRUE)]

\* the available list renderCourses builds
renderAvailableList(this) ==
    LET notSelected(course) == course.code \notin this.selectedCourses
        availableCourses == SelectSeq(courses, notSelected)
        filteredAvailable ==
            filterCourses(this, availableCourses, trim(this.searchInput),
                          this.categoryFilter, this.typeFilter)
    IN  [i \in 1..Len(filteredAvailable) |->
            createCourseCard(this, filteredAvailable[i], FALSE)]

\* a handler leaves the planner as `this` and has called renderCourses on it
\* last: the fields are stored and both lists are rebuilt from them
renderCourses(this) ==
    /\ selectedCourses' = this.selectedCourses
    /\ maxCredits' = this.maxCredits
    /\ maxCourses' = this.maxCourses
    /\ categoryFilter' = this.categoryFilter
    /\ typeFilter' = this.typeFilter
    /\ electiveTrailSelections' = this.electiveTrailSelections
    /\ searchInput' = this.searchInput
    /\ selectedCoursesList' = renderSelectedList(this)
    /\ availableCoursesList' = renderAvailableList(this)
    /\ UNCHANGED courses

-----------------------------------------------------------------------------
(* addCourse and removeCourse *)

\* a trail selection that opens the third slot only at exactly two courses
\* of the first trail (=== 2 in place of >= 2)
trailSelectionOnAddAtTwoOnly(this, course) ==
    LET selectedElectiveTrails == getSelectedElectiveTrails(this)
    IN  IF isTrailCategory(course.category)
        THEN IF /\ selectedElectiveTrails.firstTrailCourses < 2
                /\ ~ Truthy(this.electiveTrailSelections.firstTrail)
             THEN [this.electiveTrailSelections EXCEPT !.firstTrail = course.category]
             ELSE IF /\ selectedElectiveTrails.firstTrailCourses = 2
                     /\ selectedElectiveTrails.thirdTrailCourses = 0
                     /\ ~ Truthy(this.electiveTrailSelections.thirdTrail)
             THEN [this.electiveTrailSelections EXCEPT !.thirdTrail = course.category]
             ELSE this.electiveTrailSelections
        ELSE this.electiveTrailSelections

\* addCourse, "Handle specialized elective trail selection": the value of
\* this.electiveTrailSelections after the block, from the counts before
\* anything is added
trailSelectionOnAdd(this, course) ==
    LET selectedElectiveTrails == getSelectedElectiveTrails(this)
    IN  IF isTrailCategory(course.category)
        THEN IF /\ selectedElectiveTrails.firstTrailCourses < 2
                /\ ~ Truthy(this.electiveTrailSelections.firstTrail)
             THEN [this.electiveTrailSelections EXCEPT !.firstTrail = course.category]
             ELSE IF /\ selectedElectiveTrails.firstTrailCourses >= 2
                     /\ selectedElectiveTrails.thirdTrailCourses = 0
                     /\ ~ Truthy(this.electiveTrailSelections.thirdTrail)
             THEN [this.electiveTrailSelections EXCEPT !.thirdTrail = course.category]
             ELSE this.electiveTrailSelections
        ELSE this.electiveTrailSelections

\* a corequisite loop that respects the course cap: the corequisites enter
\* only when they and their parent course fit under maxCourses
addCorequisitesWithinCap(course, selected) ==
    LET withCoreqs ==
            selected \cup {course.corequisites[i] : i \in 1..Len(course.corequisites)}
    IN  IF Cardinality(withCoreqs \cup {course.code}) <= maxCourses
        THEN withCoreqs
        ELSE selected

\* addCourse, "Add corequisites automatically": the selection after the loop
addCorequisites(course, selected) ==
    selected \cup {course.corequisites[i] : i \in 1..Len(course.corequisites)}

\* a trail deselection that gives the lock up one course early
\* (trailCounts[category] - 2 <= 0 in place of - 1)
trailSelectionOnRemoveEarly(this, course) ==
    LET selectedElectiveTrails == getSelectedElectiveTrails(this)
        counted == course.category \in DOMAIN selectedElectiveTrails.trailCounts
        remaining == selectedElectiveTrails.trailCounts[course.category] - 2
        last == counted /\ remaining <= 0
        afterFirst ==
            IF this.electiveTrailSelections.firstTrail = course.category /\ last
            THEN [this.electiveTrailSelections EXCEPT !.firstTrail = Null]
            ELSE this.electiveTrailSelections
        afterThird ==
            IF afterFirst.thirdTrail = course.category /\ last
            THEN [afterFirst EXCEPT !.thirdTrail = Null]
            ELSE afterFirst
    IN  IF isTrailCategory(course.category) THEN afterThird
        ELSE this.electiveTrailSelections

\* removeCourse, "Handle specialized elective trail deselection": the value
\* of this.electiveTrailSelections after the block.  trailCounts[category] is
\* undefined when no course of the category is selected, and
\* undefined - 1 <= 0 is false.
trailSelectionOnRemove(this, course) ==
    LET selectedElectiveTrails == getSelectedElectiveTrails(this)
        counted == course.category \in DOMAIN selectedElectiveTrails.trailCounts
        remaining == selectedElectiveTrails.trailCounts[course.category] - 1
        last == counted /\ remaining <= 0
        afterFirst ==
            IF this.electiveTrailSelections.firstTrail = course.category /\ last
            THEN [this.electiveTrailSelections EXCEPT !.firstTrail = Null]
            ELSE this.electiveTrailSelections
        afterThird ==
            IF afterFirst.thirdTrail = course.category /\ last
            THEN [afterFirst EXCEPT !.thirdTrail = Null]
            ELSE afterFirst
    IN  IF isTrailCategory(course.category) THEN afterThird
        ELSE this.electiveTrailSelections

\* removeCourse, "Remove corequisites if they were added automatically": the
\* forEach over course.corequisites from position i on, each step reading
\* the selection the steps before it left
RECURSIVE removeCorequisites(_, _, _, _)
removeCorequisites(corequisites, i, courseCode, selected) ==
    IF i > Len(corequisites) THEN selected
    ELSE LET coreq == corequisites[i]
             manuallySelected ==
                \E code \in selected :
                    /\ code # courseCode
                    /\ hasCourse(code)
                    /\ listIncludes(findCourse(code).corequisites, coreq)
         IN  removeCorequisites(corequisites, i + 1, courseCode,
                IF coreq \in selected /\ ~ manuallySelected
                THEN selected \ {coreq}
                ELSE selected)

\* an addCourse without the early return: a code the catalog does not
\* know is put into the selection
addCourseAnyCode(this, courseCode) ==
    IF ~ hasCourse(courseCode)
    THEN [this EXCEPT !.selectedCourses = @ \cup {courseCode}]
    ELSE LET course == findCourse(courseCode)
         IN  [this EXCEPT
                !.electiveTrailSelections = trailSelectionOnAdd(this, course),
                !.selectedCourses =
                    addCorequisites(course, this.selectedCourses)
                        \cup {courseCode},
                !.searchInput = <<>>]

\* the planner after addCourse(courseCode) on the planner `this`.
\* clearSearch empties the search box, and its input event renders again.
addCourse(this, courseCode) ==
    IF ~ hasCourse(courseCode) THEN this
    ELSE LET course == findCourse(courseCode)
         IN  [this EXCEPT
                !.electiveTrailSelections = trailSelectionOnAdd(this, course),
                !.selectedCourses =
                    addCorequisites(course, this.selectedCourses)
                        \cup {courseCode},
                !.searchInput = <<>>]

\* a removeCourse that leaves the search box as it is
removeCourseKeepsSearch(this, courseCode) ==
    IF ~ hasCourse(courseCode) THEN this
    ELSE LET course == findCourse(courseCode)
         IN  [this EXCEPT
                !.electiveTrailSelections = trailSelectionOnRemove(this, course),
                !.selectedCourses =
                    removeCorequisites(course.corequisites, 1, courseCode,
                                       this.selectedCourses) \ {courseCode}]

\* the planner after removeCourse(courseCode) on the planner `this`
removeCourse(this, courseCode) ==
    IF ~ hasCourse(courseCode) THEN this
    ELSE LET course == findCourse(courseCode)
         IN  [this EXCEPT
                !.electiveTrailSelections = trailSelectionOnRemove(this, course),
                !.selectedCourses =
                    removeCorequisites(course.corequisites, 1, courseCode,
                                       this.selectedCourses) \ {courseCode},
                !.searchInput = <<>>]

-----------------------------------------------------------------------------
(* What the user can enter *)

\* texts typed into #maxCredits: "-1", "0"
MaxCreditsInputs == { <<"-","1">>, <<"0">> }

\* texts typed into #maxCourses: "2", "abc"
MaxCoursesInputs == { <<"2">>, <<"a","b","c">> }

\* texts typed into #searchInput: "", " Lab "
SearchInputs == { <<>>, <<" ","L","a","b"," ">> }

\* options of #categoryFilter
CategoryOptions == { <<>>, NetworksTrail }

\* options of #typeFilter
TypeOptions == { <<>>, Lab }

-----------------------------------------------------------------------------
(* The planner: construction and event handlers *)

\* new CoursePlanner(coursesData)
Init ==
    /\ courses \in Catalogs
    /\ selectedCourses = {}
    /\ maxCredits = 14
    /\ maxCourses = 8
    /\ categoryFilter = <<>>
    /\ typeFilter = <<>>
    /\ electiveTrailSelections = [firstTrail |-> Null, thirdTrail |-> Null]
    /\ searchInput = <<>>
    /\ selectedCoursesList = renderSelectedList(planner)
    /\ availableCoursesList = renderAvailableList(planner)
    /\ lastOp = "constructor"
    /\ lastCode = Null

\* 'change' on #maxCredits
ChangeMaxCredits(value) ==
    /\ renderCourses([planner EXCEPT !.maxCredits = parseIntOr(value, 14)])
    /\ lastOp' = "maxCredits"
    /\ lastCode' = Null

\* a change of #maxCourses that stores the cap and does not render: the
\* cards keep the flags computed with the old cap
ChangeMaxCoursesStaleCards(value) ==
    /\ maxCourses' = parseIntOr(value, 8)
    /\ UNCHANGED <<courses, selectedCourses, maxCredits, categoryFilter,
                   typeFilter, electiveTrailSelections, searchInput,
                   selectedCoursesList, availableCoursesList>>
    /\ lastOp' = "maxCourses"
    /\ lastCode' = Null

\* 'change' on #maxCourses
ChangeMaxCourses(value) ==
    /\ renderCourses([planner EXCEPT !.maxCourses = parseIntOr(value, 8)])
    /\ lastOp' = "maxCourses"
    /\ lastCode' = Null

\* 'input' on #searchInput, the user having typed value
SearchInput(value) ==
    /\ renderCourses([planner EXCEPT !.searchInput = value])
    /\ lastOp' = "search"
    /\ lastCode' = Null

\* a clear that empties the selection and keeps the trail selections
ClearAllKeepsTrails ==
    /\ renderCourses([planner EXCEPT !.selectedCourses = {}])
    /\ lastOp' = "clearAll"
    /\ lastCode' = Null

\* 'click' on #clearAll
ClearAll ==
    /\ renderCourses([planner EXCEPT
            !.selectedCourses = {},
            !.electiveTrailSelections =
                [firstTrail |-> Null, thirdTrail |-> Null]])
    /\ lastOp' = "clearAll"
    /\ lastCode' = Null

\* 'change' on #categoryFilter
ChangeCategoryFilter(value) ==
    /\ renderCourses([planner EXCEPT !.categoryFilter = value])
    /\ lastOp' = "categoryFilter"
    /\ lastCode' = Null

\* 'change' on #typeFilter
ChangeTypeFilter(value) ==
    /\ renderCourses([planner EXCEPT !.typeFilter = value])
    /\ lastOp' = "typeFilter"
    /\ lastCode' = Null

\* 'click' on a card of the available list, or on its action button: the
\* listeners call addCourse when the card was built with isAvailable
ClickAdd(i) ==
    /\ availableCoursesList[i].isAvailable
    /\ renderCourses(addCourse(planner, availableCoursesList[i].code))
    /\ lastOp' = "addCourse"
    /\ lastCode' = availableCoursesList[i].code

\* 'click' on a card of the available list that was built without
\* isAvailable: the card has no listener, and the listener of its action
\* button calls nothing
ClickUnavailable(i) ==
    /\ ~ availableCoursesList[i].isAvailable
    /\ UNCHANGED <<courses, selectedCourses, maxCredits, maxCourses,
                   categoryFilter, typeFilter, electiveTrailSelections,
                   searchInput, selectedCoursesList, availableCoursesList>>
    /\ lastOp' = "click"
    /\ lastCode' = availableCoursesList[i].code

\* 'click' on the action button of a card of the selected list
ClickRemove(i) ==
    /\ renderCourses(removeCourse(planner, selectedCoursesList[i].code))
    /\ lastOp' = "removeCourse"
    /\ lastCode' = selectedCoursesList[i].code

Next ==
    \/ \E value \in MaxCreditsInputs : ChangeMaxCredits(value)
    \/ \E value \in MaxCoursesInputs : ChangeMaxCourses(value)
    \/ \E value \in SearchInputs : SearchInput(value)
    \/ ClearAll
    \/ \E value \in CategoryOptions : ChangeCategoryFilter(value)
    \/ \E value \in TypeOptions : ChangeTypeFilter(value)
    \/ \E i \in DOMAIN availableCoursesList : ClickAdd(i)
    \/ \E i \in DOMAIN availableCoursesList : ClickUnavailable(i)
    \/ \E i \in DOMAIN selectedCoursesList : ClickRemove(i)

Spec == Init /\ [][Next]_vars

-----------------------------------------------------------------------------
(* addCourse called directly, each call gated by isCourseAvailable, from the
   empty selection: the caps are the ones a change of the two cap inputs
   left before the first call *)

\* largest maxCredits the gated calls are tried with
MaxCreditsTried == 7

\* largest maxCourses the gated calls are tried with
MaxCoursesTried == 3

InitGated ==
    /\ courses \in Catalogs
    /\ selectedCourses = {}
    /\ maxCredits \in 1..MaxCreditsTried
    /\ maxCourses \in 1..MaxCoursesTried
    /\ categoryFilter = <<>>
    /\ typeFilter = <<>>
    /\ electiveTrailSelections = [firstTrail |-> Null, thirdTrail |-> Null]
    /\ searchInput = <<>>
    /\ selectedCoursesList = renderSelectedList(planner)
    /\ availableCoursesList = renderAvailableList(planner)
    /\ lastOp = "constructor"
    /\ lastCode = Null

\* addCourse(courses[i].code), called because isCourseAvailable(courses[i])
GatedAdd(i) ==
    /\ isCourseAvailable(planner, courses[i])
    /\ renderCourses(addCourse(planner, courses[i].code))
    /\ lastOp' = "addCourse"
    /\ lastCode' = courses[i].code

NextGated == \E i \in 1..Len(courses) : GatedAdd(i)

SpecGated == InitGated /\ [][NextGated]_vars

-----------------------------------------------------------------------------
(* Properties *)

\* the corequisite codes of a course, as a set
corequisitesOf(course) ==
    {course.corequisites[i] : i \in 1..Len(course.corequisites)}

\* the codes of a selection whose catalog course has the category
selectedOfCategory(selected, category) ==
    {code \in selected : hasCourse(code) /\ findCourse(code).category = category}

\* the codes of a selection whose catalog course is a trail course
selectedTrailCourses(selected) ==
    {code \in selected :
        hasCourse(code) /\ isTrailCategory(findCourse(code).category)}

\* C1: under SpecGated (addCourse calls from the empty selection, each made
\* when isCourseAvailable is true), the credits of the selected courses
\* never exceed maxCredits.
C1_CreditCap == getSelectedCredits(planner) <= maxCredits

\* C2: under SpecGated, the number of selected codes never exceeds
\* maxCourses.
C2_CourseCap == getSelectedCourseCount(planner) <= maxCourses

\* C3: at most one member of every alternative group is selected.
C3_AlternativeExclusivity ==
    \A g \in 1..Len(alternativeGroups) :
        Cardinality({k \in 1..Len(alternativeGroups[g]) :
                        alternativeGroups[g][k] \in selectedCourses}) <= 1

\* C4: right after removeCourse(C), a corequisite D of C is selected if and
\* only if a selected course other than C lists D among its corequisites.
C4_CorequisiteCleanup ==
    lastOp = "removeCourse" =>
        \A D \in corequisitesOf(findCourse(lastCode)) :
            D \in selectedCourses <=>
                \E E \in selectedCourses :
                    /\ E # lastCode
                    /\ hasCourse(E)
                    /\ D \in corequisitesOf(findCourse(E))

\* C5: right after addCourse(C), C and every corequisite of C are selected,
\* and the selected credits cover the credits of C and of its corequisites.
C5_CorequisiteClosure ==
    lastOp = "addCourse" =>
        /\ lastCode \in selectedCourses
        /\ corequisitesOf(findCourse(lastCode)) \subseteq selectedCourses
        /\ getSelectedCredits(planner) >=
                sumCredits({lastCode} \cup corequisitesOf(findCourse(lastCode)))

\* C5 witness: HIS103 was added while POL101, the alternative of its
\* corequisite POL104, was selected and maxCourses was reached; POL104 is
\* selected all the same.
C5_Witness ==
    /\ lastOp = "addCourse"
    /\ lastCode = HIS103
    /\ {POL101, POL104, HIS103} \subseteq selectedCourses
    /\ maxCourses = 2
    /\ getSelectedCredits(planner) = 9

\* C6: while firstTrail is a category K and fewer than 2 courses of
\* category K are selected, no step puts a course of another trail category
\* into the selection.
C6_TrailLockMonotonic ==
    [][ ( /\ Truthy(electiveTrailSelections.firstTrail)
          /\ Cardinality(selectedOfCategory(selectedCourses,
                            electiveTrailSelections.firstTrail)) < 2 )
        => \A code \in selectedCourses' \ selectedCourses :
              (hasCourse(code) /\ isTrailCategory(findCourse(code).category))
              => findCourse(code).category = electiveTrailSelections.firstTrail
      ]_vars

\* C7: a step that starts with firstTrail = K and ends with a course of
\* category K selected ends with firstTrail = K (so firstTrail leaves K
\* only in a step after which no course of category K is selected).
C7_FirstTrailStable ==
    [][ ( /\ Truthy(electiveTrailSelections.firstTrail)
          /\ selectedOfCategory(selectedCourses',
                                electiveTrailSelections.firstTrail) # {} )
        => electiveTrailSelections'.firstTrail = electiveTrailSelections.firstTrail
      ]_vars

\* C7 witness: a course of the first trail was removed, another course of
\* that trail is still selected, and the lock is still on that trail.
C7_Witness ==
    /\ lastOp = "removeCourse"
    /\ findCourse(lastCode).category = electiveTrailSelections.firstTrail
    /\ Cardinality(selectedOfCategory(selectedCourses,
                        electiveTrailSelections.firstTrail)) = 1

\* C8: whenever at least two trail courses are selected, at least two of
\* them are of the category firstTrail.
C8_TwoPlusOne ==
    Cardinality(selectedTrailCourses(selectedCourses)) >= 2 =>
        /\ Truthy(electiveTrailSelections.firstTrail)
        /\ Cardinality(selectedOfCategory(selectedCourses,
                            electiveTrailSelections.firstTrail)) >= 2

\* the number of selected courses of the category firstTrail (0 without one)
firstTrailCount ==
    IF Truthy(electiveTrailSelections.firstTrail)
    THEN Cardinality(selectedOfCategory(selectedCourses,
                        electiveTrailSelections.firstTrail))
    ELSE 0

\* the trail lock C9 states for addCourse of the course, from the state
\* before the call; thirdSlotOpen is its condition on the first-trail count
C9_trailAfterAdd(course, thirdSlotOpen) ==
    IF /\ isTrailCategory(course.category)
       /\ electiveTrailSelections.firstTrail = Null
    THEN [electiveTrailSelections EXCEPT !.firstTrail = course.category]
    ELSE IF /\ isTrailCategory(course.category)
            /\ thirdSlotOpen
            /\ electiveTrailSelections.thirdTrail = Null
    THEN [electiveTrailSelections EXCEPT !.thirdTrail = course.category]
    ELSE electiveTrailSelections

\* C9 as stated: addCourse(C) sets firstTrail to C's trail category when
\* firstTrail is null, else sets thirdTrail to it when exactly 2 courses of
\* firstTrail are selected and thirdTrail is null, else leaves the lock.
C9_ExactlyTwo ==
    [][ lastOp' = "addCourse" =>
            electiveTrailSelections' =
                C9_trailAfterAdd(findCourse(lastCode'), firstTrailCount = 2)
      ]_vars

\* C9 amended: as C9, with "at least 2 courses of firstTrail are selected"
\* in place of "exactly 2".
C9_AtLeastTwo ==
    [][ lastOp' = "addCourse" =>
            electiveTrailSelections' =
                C9_trailAfterAdd(findCourse(lastCode'), firstTrailCount >= 2)
      ]_vars

\* C9 witness: a course of another trail was added while 3 courses of the
\* first trail were selected, and thirdTrail is its category.
C9_Witness ==
    /\ lastOp = "addCourse"
    /\ firstTrailCount = 3
    /\ findCourse(lastCode).category # electiveTrailSelections.firstTrail
    /\ electiveTrailSelections.thirdTrail = findCourse(lastCode).category

\* C10: removeCourse(C) of a selected trail course of category K sets
\* firstTrail to null when K was firstTrail and no course of category K is
\* selected once the call has finished, and keeps it otherwise; likewise
\* for thirdTrail.
C10_TrailRemoval ==
    [][ ( /\ lastOp' = "removeCourse"
          /\ isTrailCategory(findCourse(lastCode').category) )
        => LET K == findCourse(lastCode').category
               none == selectedOfCategory(selectedCourses', K) = {}
           IN  /\ electiveTrailSelections'.firstTrail =
                    IF electiveTrailSelections.firstTrail = K /\ none
                    THEN Null ELSE electiveTrailSelections.firstTrail
               /\ electiveTrailSelections'.thirdTrail =
                    IF electiveTrailSelections.thirdTrail = K /\ none
                    THEN Null ELSE electiveTrailSelections.thirdTrail
      ]_vars

-----------------------------------------------------------------------------
(* Availability, rejected clicks, alternatives *)

\* another member of the alternative group of the code is selected
otherAlternativeSelected(code) ==
    \E g \in 1..Len(alternativeGroups) :
        /\ \E k \in 1..Len(alternativeGroups[g]) : alternativeGroups[g][k] = code
        /\ \E k \in 1..Len(alternativeGroups[g]) :
                /\ alternativeGroups[g][k] # code
                /\ alternativeGroups[g][k] \in selectedCourses

\* one of the four conditions C11 lists holds for the course
C11_unavailable(course) ==
    \/ course.code \in selectedCourses
    \/ sumCredits(selectedCourses) + course.credits > maxCredits
    \/ Cardinality(selectedCourses) + 1 > maxCourses
    \/ otherAlternativeSelected(course.code)

\* the values electiveTrailSelections can be given
TrailLocks ==
    [firstTrail : {Null, NetworksTrail, BioinformaticsTrail},
     thirdTrail : {Null, NetworksTrail, BioinformaticsTrail}]

\* C11: isCourseAvailable(c) is false exactly when c is selected, or its
\* credits do not fit under maxCredits, or one more course does not fit
\* under maxCourses, or another member of its alternative group is
\* selected; the trail lock has no say in it; the cards of the available
\* list carry that value.
C11_AvailableExactly ==
    /\ \A i \in 1..Len(courses) :
        /\ isCourseAvailable(planner, courses[i]) = ~ C11_unavailable(courses[i])
        /\ \A lock \in TrailLocks :
                isCourseAvailable(
                    [planner EXCEPT !.electiveTrailSelections = lock], courses[i])
                = isCourseAvailable(planner, courses[i])
    /\ \A j \in DOMAIN availableCoursesList :
            availableCoursesList[j].isAvailable
            = ~ C11_unavailable(findCourse(availableCoursesList[j].code))

\* C11 witness: the selection is exactly at maxCourses, and a course that
\* is not selected, fits under maxCredits and has no selected alternative
\* is not available.
C11_Witness ==
    /\ Cardinality(selectedCourses) = maxCourses
    /\ \E i \in 1..Len(courses) :
            /\ courses[i].code \notin selectedCourses
            /\ sumCredits(selectedCourses) + courses[i].credits <= maxCredits
            /\ ~ otherAlternativeSelected(courses[i].code)
            /\ ~ isCourseAvailable(planner, courses[i])

\* C12: a click on the card or the action button of an unselected course
\* for which isCourseAvailable is false in the current state does not call
\* addCourse and leaves the selection, the trail lock, the caps, the
\* filters, the search term and both lists as they were.
C12_RejectedClick ==
    [][ \A j \in DOMAIN availableCoursesList :
            ( /\ lastOp' \in {"addCourse", "click"}
              /\ lastCode' = availableCoursesList[j].code
              /\ ~ isCourseAvailable(planner,
                        findCourse(availableCoursesList[j].code)) )
            => /\ lastOp' = "click"
               /\ UNCHANGED <<selectedCourses, electiveTrailSelections,
                              maxCredits, maxCourses, categoryFilter,
                              typeFilter, searchInput, selectedCoursesList,
                              availableCoursesList>>
      ]_vars

\* C12 witness: the last click was on a course that is not available, and
\* the search term typed before it is still there.
C12_Witness ==
    /\ lastOp = "click"
    /\ ~ isCourseAvailable(planner, findCourse(lastCode))
    /\ searchInput # <<>>

\* C13: for two codes X and Y of one alternative group, both in the catalog
\* and both available, Y is not available after addCourse(X) and is
\* available again after a following removeCourse(X).
C13_AlternativeRoundTrip ==
    \A g \in 1..Len(alternativeGroups) :
        \A kx, ky \in 1..Len(alternativeGroups[g]) :
            LET X == alternativeGroups[g][kx]
                Y == alternativeGroups[g][ky]
            IN  ( /\ X # Y
                  /\ hasCourse(X)
                  /\ hasCourse(Y)
                  /\ isCourseAvailable(planner, findCourse(X))
                  /\ isCourseAvailable(planner, findCourse(Y)) )
                => LET added == addCourse(planner, X)
                       removed == removeCourse(added, X)
                   IN  /\ ~ isCourseAvailable(added, findCourse(Y))
                       /\ isCourseAvailable(removed, findCourse(Y))

-----------------------------------------------------------------------------
(* clearAll, unknown codes, the filter *)

\* C14: a clearAll step ends with the empty selection and both trail
\* selections null, and leaves the caps, the filters and the search term;
\* a clearAll step that follows a clearAll step changes nothing at all.
C14_ClearAll ==
    [][ lastOp' = "clearAll" =>
            /\ selectedCourses' = {}
            /\ electiveTrailSelections' =
                    [firstTrail |-> Null, thirdTrail |-> Null]
            /\ UNCHANGED <<maxCredits, maxCourses, categoryFilter, typeFilter,
                           searchInput>>
            /\ lastOp = "clearAll" =>
                    UNCHANGED <<selectedCourses, electiveTrailSelections,
                                selectedCoursesList, availableCoursesList,
                                lastCode>>
      ]_vars

\* C14 witness: clearAll ran last on a planner whose caps and category
\* filter had been changed; nothing is selected and no trail is locked.
C14_Witness ==
    /\ lastOp = "clearAll"
    /\ selectedCourses = {}
    /\ electiveTrailSelections = [firstTrail |-> Null, thirdTrail |-> Null]
    /\ selectedCoursesList = <<>>
    /\ maxCourses = 2
    /\ categoryFilter # <<>>

\* codes that addCourse and removeCourse may be called with: the codes of
\* all catalogs and one code of none
CodesTried ==
    {CSE470, CSE470L, POL101, POL104, ECO101, ECO104, ECO101L, BUS172,
     HIS103, PHY108, PHY108L, MAT130, CSE338, CSE338L, CSE438, CSE439,
     CSE446, CSE499, <<"X","Y","Z","0","0","0">>}

\* C15: addCourse(x) and removeCourse(x) with a code x that no catalog
\* course has return the planner as it was: selection, trail lock, caps,
\* filters (and the search term) are unchanged.
C15_UnknownCodes ==
    \A x \in CodesTried :
        ~ hasCourse(x) =>
            /\ addCourse(planner, x) = planner
            /\ removeCourse(planner, x) = planner

\* C15 witness: courses are selected, a trail is locked, a search term is
\* typed, and a code of another catalog is unknown here.
C15_Witness ==
    /\ selectedCourses # {}
    /\ Truthy(electiveTrailSelections.firstTrail)
    /\ searchInput # <<>>
    /\ ~ hasCourse(POL101)
    /\ addCourse(planner, POL101) = planner
    /\ removeCourse(planner, POL101) = planner

\* t occurs in s when upper and lower case letters are taken as equal
occursIgnoringCase(s, t) ==
    \E i \in 1..(Len(s) - Len(t) + 1) :
        \A k \in 1..Len(t) : lowerChar(s[i + k - 1]) = lowerChar(t[k])

\* the search, category and type predicates of C16
C16_passes(course, searchTerm, categoryArg, typeArg) ==
    /\ \/ searchTerm = <<>>
       \/ occursIgnoringCase(course.code, searchTerm)
       \/ occursIgnoringCase(course.name, searchTerm)
       \/ occursIgnoringCase(course.category, searchTerm)
    /\ categoryArg = <<>> \/ course.category = categoryArg
    /\ typeArg = <<>> \/ course.type = typeArg

\* the trail gating of C16
C16_trailGated(course) ==
    /\ isTrailCategory(course.category)
    /\ electiveTrailSelections.firstTrail # Null
    /\ Cardinality(selectedOfCategory(selectedCourses,
                        electiveTrailSelections.firstTrail)) < 2
    /\ course.category # electiveTrailSelections.firstTrail

\* the catalog courses that are selected / not selected, in catalog order
selectedCoursesArray ==
    LET isSelectedCourse(course) == course.code \in selectedCourses
    IN  SelectSeq(courses, isSelectedCourse)

availableCourses ==
    LET notSelected(course) == course.code \notin selectedCourses
    IN  SelectSeq(courses, notSelected)

\* C16: filterCourses keeps, in the order of its input, exactly the courses
\* that pass the search, category and type predicates and are not
\* trail-gated; the two lists on the page are built from such results.
C16_Filter ==
    /\ \A list \in {courses, selectedCoursesArray} :
       \A value \in SearchInputs :
            LET kept(course) ==
                    /\ C16_passes(course, trim(value), categoryFilter, typeFilter)
                    /\ ~ C16_trailGated(course)
            IN  filterCourses(planner, list, trim(value), categoryFilter, typeFilter)
                = SelectSeq(list, kept)
    /\ LET shown(course) ==
                /\ C16_passes(course, trim(searchInput), categoryFilter, typeFilter)
                /\ ~ C16_trailGated(course)
           expected == SelectSeq(availableCourses, shown)
       IN  /\ Len(availableCoursesList) = Len(expected)
           /\ \A j \in 1..Len(expected) :
                    availableCoursesList[j].code = expected[j].code

\* C16 witness: one course of the first trail is selected, and a course of
\* another trail that passes search, category and type is not on the
\* available list.
C16_Witness ==
    /\ firstTrailCount = 1
    /\ \E i \in 1..Len(courses) :
            /\ courses[i].code \notin selectedCourses
            /\ C16_trailGated(courses[i])
            /\ C16_passes(courses[i], trim(searchInput), categoryFilter, typeFilter)
            /\ \A j \in DOMAIN availableCoursesList :
                    availableCoursesList[j].code # courses[i].code

\* C16 second witness case: two courses of the first trail are selected and
\* a course of another trail is on the available list.
C16_WitnessOpen ==
    /\ firstTrailCount = 2
    /\ \E j \in DOMAIN availableCoursesList :
            LET course == findCourse(availableCoursesList[j].code)
            IN  /\ isTrailCategory(course.category)
                /\ course.category # electiveTrailSelections.firstTrail

-----------------------------------------------------------------------------
(* The caps, the search box, corequisites added by hand *)

\* C17: a change of maxCredits or maxCourses leaves the selection and the
\* trail lock, also when the selection exceeds the new cap; the cards it
\* renders carry isCourseAvailable under the new caps, and every addCourse
\* step is for a course that isCourseAvailable accepts under the caps of
\* the state it is taken in.
C17_CapChange ==
    [][ /\ lastOp' \in {"maxCredits", "maxCourses"} =>
            /\ UNCHANGED <<selectedCourses, electiveTrailSelections>>
            /\ LET after == [planner EXCEPT !.maxCredits = maxCredits',
                                            !.maxCourses = maxCourses']
               IN  \A j \in DOMAIN availableCoursesList' :
                        availableCoursesList'[j].isAvailable
                        = isCourseAvailable(after,
                                findCourse(availableCoursesList'[j].code))
        /\ lastOp' = "addCourse" =>
                isCourseAvailable(planner, findCourse(lastCode'))
      ]_vars

\* C17 witness: maxCourses was just changed to less than the number of
\* selected courses, and they are all still selected.
C17_Witness ==
    /\ lastOp = "maxCourses"
    /\ maxCourses = 2
    /\ Cardinality(selectedCourses) > 2
    /\ Len(selectedCoursesList) > 2

\* C18: maxCredits and maxCourses are integers greater than 0 in every
\* state, whatever was typed into the cap inputs.
C18_CapsPositive ==
    /\ maxCredits \in Nat \ {0}
    /\ maxCourses \in Nat \ {0}

\* C19: when addCourse or removeCourse of a catalog course has finished,
\* the search term is empty, both lists are the ones rendered from the new
\* selection with the empty search term, and the category and type
\* filters are the ones of before.
C19_SearchCleared ==
    [][ lastOp' \in {"addCourse", "removeCourse"} =>
            /\ searchInput' = <<>>
            /\ UNCHANGED <<categoryFilter, typeFilter>>
            /\ LET after ==
                    [selectedCourses |-> selectedCourses',
                     maxCredits |-> maxCredits,
                     maxCourses |-> maxCourses,
                     categoryFilter |-> categoryFilter,
                     typeFilter |-> typeFilter,
                     electiveTrailSelections |-> electiveTrailSelections',
                     searchInput |-> <<>>]
               IN  /\ selectedCoursesList' = renderSelectedList(after)
                   /\ availableCoursesList' = renderAvailableList(after)
      ]_vars

\* C19 witness: a course was removed while both filters were set; the
\* search term is empty, the filters are still set, and courses remain
\* selected.
C19_Witness ==
    /\ lastOp = "removeCourse"
    /\ searchInput = <<>>
    /\ categoryFilter # <<>>
    /\ typeFilter # <<>>
    /\ selectedCourses # {}

\* C20: a corequisite D of a course C that was put into the selection by
\* its own addCourse(D) call before addCourse(C) is still selected after
\* removeCourse(C).  Both adds are made when isCourseAvailable accepts
\* them.
C20_ManualCorequisiteKept ==
    \A i \in 1..Len(courses) :
        \A D \in corequisitesOf(courses[i]) :
            ( /\ hasCourse(D)
              /\ isCourseAvailable(planner, findCourse(D))
              /\ isCourseAvailable(addCourse(planner, D), courses[i]) )
            => LET byHand == addCourse(planner, D)
                   withC == addCourse(byHand, courses[i].code)
                   withoutC == removeCourse(withC, courses[i].code)
               IN  D \in withoutC.selectedCourses

-----------------------------------------------------------------------------
(* Removability, dangling trail locks, order of corequisites *)

\* C21: with the search term empty, every catalog course whose code is
\* selected has a card on the selected list (and so a remove button).
C21_SelectedStaysRemovable ==
    searchInput = <<>> =>
        \A code \in selectedCourses :
            hasCourse(code) =>
                \E j \in DOMAIN selectedCoursesList :
                    selectedCoursesList[j].code = code

\* C22: when firstTrail is not null a selected course has that category,
\* and when thirdTrail is not null a selected course has that category.
C22_TrailLockNeverDangles ==
    /\ electiveTrailSelections.firstTrail # Null =>
            selectedOfCategory(selectedCourses,
                               electiveTrailSelections.firstTrail) # {}
    /\ electiveTrailSelections.thirdTrail # Null =>
            selectedOfCategory(selectedCourses,
                               electiveTrailSelections.thirdTrail) # {}

\* the sequences that list the elements of a sequence in another order
reorderings(seq) ==
    LET n == Len(seq)
        orders == {p \in [1..n -> 1..n] :
                        \A a, b \in 1..n : a # b => p[a] # p[b]}
    IN  {[k \in 1..n |-> seq[p[k]]] : p \in orders}

\* C23: removeCourse(C) of a selected course C leaves the same selection
\* whatever the order of C's corequisites list: the corequisite loop run
\* on any reordering of the list ends with the same set.
C23_CorequisiteOrder ==
    \A i \in 1..Len(courses) :
        courses[i].code \in selectedCourses =>
            \A reordered \in reorderings(courses[i].corequisites) :
                removeCorequisites(reordered, 1, courses[i].code,
                                   selectedCourses) \ {courses[i].code}
                = removeCourse(planner, courses[i].code).selectedCourses

====
